---- MODULE Spec2Model ----
(***************************************************************************)
(* Model of app.py: the Bitrix transport client (_bx_post / _bx_get), the  *)
(* paginated collector (_paged_list), the three domain queries, the text   *)
(* normalizer and the /webhook intent router.                              *)
(*                                                                         *)
(* Optional Python values (None or a value) are sequences of length 0 or 1.*)
(* Texts are sequences of one-character strings; a precomposed accented    *)
(* letter is written "a+" and the combining acute accent (category Mn) is  *)
(* written "+".                                                            *)
(***************************************************************************)
EXTENDS Integers, Sequences, FiniteSets, TLC

None == <<>>
Some(x) == <<x>>

\* ---------------------------------------------------------------- bounds
MaxBatch == 2        \* rows the remote puts in one page
MaxRows == 2         \* rows the remote serves to one request in total
MaxMore == 2         \* pages the remote answers with a non-null next, per request
MaxPageSizeArg == 2  \* largest page_size a direct collector call draws
MaxPagesArg == 2     \* largest max_pages a direct collector call draws
MaxTextLen == 2      \* longest text given to normalize_text on its own
MaxLimitArg == 2     \* largest limit a direct domain query call draws

\* ------------------------------------------------------ program constants
TasksMaxPages == 5
LeadsMaxPages == 5
FallbackMaxPages == 2
DealsMaxPages == 5
DefaultPageSize == 50
DefaultLimit == 15

\* ------------------------------------------------------------------ text
Space == " "
Newline == "\n"
CombAcute == "+"

W_tareas == <<"t", "a", "r", "e", "a", "s">>
W_Tareas == <<"T", "a", "r", "e", "a", "s">>
W_lead == <<"l", "e", "a", "d">>
W_leads == <<"l", "e", "a", "d", "s">>
W_abiert == <<"a", "b", "i", "e", "r", "t">>
W_abiertos == <<"a", "b", "i", "e", "r", "t", "o", "s">>
W_leads_abiertos == W_leads \o <<Space>> \o W_abiertos
W_notificaciones == <<"n", "o", "t", "i", "f", "i", "c", "a", "c", "i", "o", "n", "e", "s">>
W_pendiente == <<"p", "e", "n", "d", "i", "e", "n", "t", "e">>
W_pendientes == <<"p", "e", "n", "d", "i", "e", "n", "t", "e", "s">>
W_Pendiente_acc == <<"P", "e", "n", "d", "i", "e+", "n", "t", "e">>
W_asignado == <<"a", "s", "i", "g", "n", "a", "d", "o">>
W_hola == <<"h", "o", "l", "a">>
W_blank == <<Space>>

Join(a, sep, b) == a \o <<sep>> \o b

\* the message texts a request may carry
Texts ==
    {<<>>, W_blank,
     W_tareas,
     Join(W_Tareas, Space, W_pendientes),
     W_leads_abiertos,
     Join(W_lead, Space, W_abiertos),
     Join(W_leads, Newline, W_abiertos),
     Join(W_abiertos, Space, W_leads),
     W_notificaciones,
     Join(W_notificaciones, Space, W_asignado),
     W_Pendiente_acc,
     W_asignado,
     W_hola,
     Join(<<>>, Space, W_hola)}

\* str.lower() on one character
Lower(c) ==
    CASE c = "T" -> "t"
      [] c = "P" -> "p"
      [] c = "E" -> "e"
      [] c = "E+" -> "e+"
      [] OTHER -> c

\* a normalizer that leaves precomposed characters as they are
NFD_none(c) == <<c>>

\* unicodedata.normalize('NFD', .) on one character: canonical decomposition
NFD(c) ==
    CASE c = "e+" -> <<"e", CombAcute>>
      [] c = "E+" -> <<"E", CombAcute>>
      [] OTHER -> <<c>>

\* unicodedata.category(c) == 'Mn'
IsMn(c) == c = CombAcute

RECURSIVE FlatMap(_, _)
FlatMap(F(_), s) == IF s = <<>> THEN <<>> ELSE F(Head(s)) \o FlatMap(F, Tail(s))

LowerNFD(c) == NFD(Lower(c))

normalize_text(text) == SelectSeq(FlatMap(LowerNFD, text), LAMBDA c : ~IsMn(c))

IsSpace(c) == c \in {Space, Newline}

RECURSIVE LStrip(_)
LStrip(s) == IF s # <<>> /\ IsSpace(Head(s)) THEN LStrip(Tail(s)) ELSE s

RECURSIVE RStrip(_)
RStrip(s) ==
    IF s # <<>> /\ IsSpace(s[Len(s)]) THEN RStrip(SubSeq(s, 1, Len(s) - 1)) ELSE s

\* str.strip()
Strip(s) == RStrip(LStrip(s))

\* pat occurs in s starting at index i
MatchAt(s, i, pat) ==
    /\ i >= 1
    /\ i + Len(pat) - 1 <= Len(s)
    /\ \A k \in 1..Len(pat) : s[i + k - 1] = pat[k]

\* Python's  pat in s
Contains(s, pat) == \E i \in 1..(Len(s) + 1) : MatchAt(s, i, pat)

\* \w of the regex engine, on the characters of the model
IsWordChar(c) == ~IsSpace(c)

WordAt(s, i) == i >= 1 /\ i <= Len(s) /\ IsWordChar(s[i])

\* \b between positions i-1 and i
Boundary(s, i) == WordAt(s, i - 1) # WordAt(s, i)

\* re.search(r"\bleads?\b.*\babiert", s): "." does not match a newline
LeadsRegex(s) ==
    \E i \in 1..Len(s) :
        /\ Boundary(s, i)
        /\ MatchAt(s, i, W_lead)
        /\ \E e \in {i + 4, i + 5} :
              /\ (e = i + 5) => MatchAt(s, i + 4, <<"s">>)
              /\ Boundary(s, e)
              /\ \E j \in e..Len(s) :
                    /\ \A k \in e..(j - 1) : s[k] # Newline
                    /\ Boundary(s, j)
                    /\ MatchAt(s, j, W_abiert)

\* ---------------------------------------------------------- python values
\* truthiness of an optional string: None and "" are falsy
Truthy(o) == o # None /\ o[1] # ""

RuntimeError(msg) == [type |-> "RuntimeError", msg |-> msg]
AttributeError(msg) == [type |-> "AttributeError", msg |-> msg]
LlmError(msg) == [type |-> "Exception", msg |-> msg]

MsgNoConfig == "Falta BITRIX_WEBHOOK en .env y no se recibio AUTH_ID/DOMAIN"
MsgTimeout == "Timeout al conectar con Bitrix"
MsgConnPrefix == "Error de conexion con Bitrix"
MsgNoUser == "No llego user_id (identificate primero)."

\* ------------------------------------------------------------ the remote
Rows == 1..2

RECURSIVE SeqsUpTo(_, _)
SeqsUpTo(S, n) ==
    IF n = 0 THEN {<<>>}
    ELSE LET shorter == SeqsUpTo(S, n - 1)
         IN shorter \cup {Append(q, x) : q \in {t \in shorter : Len(t) = n - 1}, x \in S}

Cursors == {0, 50}
ErrorCodes == {"expired_token", MsgConnPrefix}
Details == {"d"}
UserIds == {"7"}

\* a parsed JSON body: {error?, error_description?, result, next}
Body(error, desc, shape, rows, next, id) ==
    [error |-> error, desc |-> desc, shape |-> shape, rows |-> rows, next |-> next, id |-> id]

NoBody == Body(None, None, "other", <<>>, None, None)

ErrorBodies == {Body(Some(c), Some(d), "other", <<>>, None, None) : c \in ErrorCodes, d \in Details}

\* list bodies: result is a list, {"tasks": [...]}, {"items": [...]} or something else
ListBodies(room, nexts) ==
    {Body(None, None, sh, rs, nx, None) :
        sh \in {"list", "tasks", "items"},
        rs \in {q \in SeqsUpTo(Rows, MaxBatch) : Len(q) <= room},
        nx \in nexts}
    \cup {Body(None, None, "other", <<>>, nx, None) : nx \in nexts}

Nexts(sofar) == {None} \cup (IF sofar < MaxMore THEN {Some(c) : c \in Cursors} ELSE {})

\* user.current bodies: result is {"ID": ...}, {} or not a mapping
UserBodies ==
    {Body(None, None, "user", <<>>, None, id) : id \in {None} \cup {Some(u) : u \in UserIds}}
    \cup {Body(None, None, "list", <<>>, None, None)}

\* what the HTTP layer does with one request
Http(k, detail, body) == [k |-> k, detail |-> detail, body |-> body]

HttpFaults ==
    {Http("timeout", "", NoBody)}
    \cup {Http(k, d, NoBody) : k \in {"conn", "status"}, d \in Details}

NoHttp == Http("none", "", NoBody)

HttpOutcomes(bodies) == HttpFaults \cup {Http("json", "", b) : b \in bodies}

\* ------------------------------------------------------ transport client
Outcome(raised, exc, data, sent) == [raised |-> raised, exc |-> exc, data |-> data, sent |-> sent]

\* the except clauses of _bx_post/_bx_get: Timeout first, then RequestException
WrapFault(http) ==
    IF http.k = "timeout" THEN RuntimeError(<<MsgTimeout>>)
    ELSE RuntimeError(<<MsgConnPrefix, ": ", http.detail>>)

\* raise RuntimeError(f"{data.get('error')}: {data.get('error_description')}")
ApiError(data) == RuntimeError(<<data.error[1], ": ", data.desc[1]>>)

HasCredentials(base, auth_id, domain) == (Truthy(auth_id) /\ Truthy(domain)) \/ base # ""

\* a client that builds the URL from an unset base and posts to it
bx_request_unchecked(base, auth_id, domain, http) ==
    IF http.k # "json" THEN Outcome(TRUE, WrapFault(http), NoBody, TRUE)
    ELSE IF http.body.error # None THEN Outcome(TRUE, ApiError(http.body), NoBody, TRUE)
    ELSE Outcome(FALSE, RuntimeError(<<>>), http.body, TRUE)

bx_request(base, auth_id, domain, http) ==
    IF ~HasCredentials(base, auth_id, domain)
    THEN Outcome(TRUE, RuntimeError(<<MsgNoConfig>>), NoBody, FALSE)
    ELSE IF http.k # "json" THEN Outcome(TRUE, WrapFault(http), NoBody, TRUE)
    ELSE IF http.body.error # None THEN Outcome(TRUE, ApiError(http.body), NoBody, TRUE)
    ELSE Outcome(FALSE, RuntimeError(<<>>), http.body, TRUE)

bx_post(base, auth_id, domain, http) == bx_request(base, auth_id, domain, http)

bx_get(base, auth_id, domain, http) == bx_request(base, auth_id, domain, http)

\* ------------------------------------------------------------------ state
VARIABLES
    BITRIX,     \* static base URL read from the environment ("" when unset)
    request,    \* the JSON object of the POST: message, AUTH_ID, DOMAIN, user_id
    pc,         \* position of the handler
    mensaje,    \* webhook local: stripped message
    auth_id,    \* webhook local / credential argument
    domain,     \* webhook local / credential argument
    user_id,    \* webhook local
    intent,     \* branch of the router that is executing
    pl,         \* locals of the running _paged_list call
    caller,     \* function that called _paged_list
    result,     \* value returned by the last _paged_list call
    exc,        \* exception that is propagating
    leads,      \* consultar_leads_abiertos local
    fb,         \* index of the fallback status being queried (0: primary)
    tareas,     \* webhook local of the combined branch
    limit,      \* display limit of the running domain query
    reply,      \* body of the HTTP reply
    calls,      \* transport client calls of the running _paged_list call
    fetched,    \* batches taken from the pages of the running _paged_list call
    queries,    \* filters of the _paged_list calls of the request, in order
    fbResults,  \* values returned by the fallback _paged_list calls, in order
    httpSent,   \* HTTP requests sent to the CRM
    llmCalls,   \* calls of the language model
    served,     \* rows served by the remote so far
    more,       \* pages answered with a non-null next so far
    fault,      \* the failed transport call of a _paged_list call: what the HTTP
                \* layer did and the exception the transport client raised
    llm,        \* the language-model call: the prompt passed and what came back
    whoami,     \* what the HTTP layer did for the self-identification call
    lastCall,   \* the last transport call of the running _paged_list call: the
                \* start it carried, whether it succeeded, the next it answered
    txt_a,      \* a text given to normalize_text
    txt_b,      \* a second text given to normalize_text
    norm,       \* what normalize_text returned for them
    active,     \* the request whose handler is running (0: a single request)
    parked      \* the state of the request whose handler is suspended

vars == <<BITRIX, request, pc, mensaje, auth_id, domain, user_id, intent, pl, caller,
          result, exc, leads, fb, tareas, limit, reply, calls, fetched, queries,
          fbResults, httpSent, llmCalls, served, more, fault, llm, whoami, lastCall, txt_a, txt_b,
          norm, active, parked>>

reqVars == <<BITRIX, request, mensaje, auth_id, domain>>
normVars == <<txt_a, txt_b, norm>>
threadVars == <<active, parked>>
ghostVars == <<calls, fetched, queries, fbResults, httpSent, llmCalls, served, more, fault,
               llm, whoami, lastCall>>

Bases == {"", "https://hook/"}
Tokens == {None, Some("tok")}
Domains == {None, Some("dom")}

\* ------------------------------------------------------------- _paged_list
\* a filter: the status condition and the owner condition
Filter(status_field, status, owner_field, owner) ==
    [status_field |-> status_field, status |-> status,
     owner_field |-> owner_field, owner |-> owner]

AnyFilter == Filter("", "", "", None)

\* items, start, pages = [], 0, 0
Frame(method, flt, page_size, max_pages) ==
    [method |-> method, flt |-> flt, page_size |-> page_size, max_pages |-> max_pages,
     items |-> <<>>, start |-> 0, pages |-> 0]

NoFrame == Frame("", AnyFilter, 0, 0)

\* while pages < max_pages
\* payload = {"filter": base_filter, "select": select, "start": start}
Payload(frame) == [filter |-> frame.flt, start |-> frame.start]

\* start = next_start
Advance_by_page(start, next) == start + DefaultPageSize
Advance(start, next) == next[1]

LoopCond_le(pages, max_pages) == pages <= max_pages
LoopCond(pages, max_pages) == pages < max_pages

\* the three shapes of data["result"] and the default
ExtractBatch(data) ==
    IF data.shape \in {"list", "tasks", "items"} THEN data.rows ELSE <<>>

\* items.extend(batch)
Extend_front(items, batch) == batch \o items
Extend(items, batch) == items \o batch

\* if next_start is None: break
IsLast_falsy(next) == next = None \/ next[1] = 0
IsLast(next) == next = None

\* no handler around the _bx_post call: the exception leaves _paged_list
Escape(pcv, res, e) == [pc |-> pcv, result |-> res, exc |-> e]
OnFetchError_partial(e, items) == Escape("returned", Some(items), None)
OnFetchError(e, items) == Escape("raised", None, Some(e))

PagedFetch ==
    /\ pc = "loop"
    /\ LoopCond(pl.pages, pl.max_pages)
    /\ \E http \in HttpOutcomes(ErrorBodies \cup ListBodies(MaxRows - served, Nexts(more))) :
          LET r == bx_post(BITRIX, auth_id, domain, http)
              batch == ExtractBatch(r.data)
              items2 == Extend(pl.items, batch)
              out == OnFetchError(r.exc, pl.items)
          IN /\ calls' = calls + 1
             /\ httpSent' = httpSent + (IF r.sent THEN 1 ELSE 0)
             /\ lastCall' = Some([start |-> Payload(pl).start, ok |-> ~r.raised,
                                  next |-> IF r.raised THEN None ELSE r.data.next])
             /\ IF r.raised
                THEN /\ pc' = out.pc
                     /\ result' = out.result
                     /\ exc' = out.exc
                     /\ fault' = Some([exc |-> r.exc,
                                       http |-> IF r.sent THEN http ELSE NoHttp])
                     /\ UNCHANGED <<pl, fetched, served, more>>
                ELSE /\ fetched' = Append(fetched, r.data.rows)
                     /\ fault' = fault
                     /\ served' = served + Len(r.data.rows)
                     /\ more' = more + (IF r.data.next = None THEN 0 ELSE 1)
                     /\ exc' = None
                     /\ IF IsLast(r.data.next)
                        THEN /\ pl' = [pl EXCEPT !.items = items2]
                             /\ result' = Some(items2)
                             /\ pc' = "returned"
                        ELSE /\ pl' = [pl EXCEPT !.items = items2,
                                                 !.start = Advance(pl.start, r.data.next),
                                                 !.pages = @ + 1]
                             /\ result' = None
                             /\ pc' = "loop"
    /\ UNCHANGED <<reqVars, normVars, threadVars, llm, whoami, user_id, intent, caller, leads, fb, tareas, limit, reply,
                   queries, fbResults, llmCalls>>

\* the loop condition fails: return items
PagedLoopExit ==
    /\ pc = "loop"
    /\ ~LoopCond(pl.pages, pl.max_pages)
    /\ result' = Some(pl.items)
    /\ pc' = "returned"
    /\ UNCHANGED <<reqVars, normVars, threadVars, llm, whoami, lastCall, user_id, intent, pl, caller, exc, leads, fb, tareas, limit,
                   reply, ghostVars>>

\* a direct call of _paged_list with arguments of the caller's choice
InitCollector ==
    /\ BITRIX \in Bases
    /\ auth_id \in Tokens
    /\ domain \in Domains
    /\ \E ps \in 1..MaxPageSizeArg, mp \in 0..MaxPagesArg :
          pl = Frame("crm.lead.list", AnyFilter, ps, mp)
    /\ request = [message |-> None, auth_id |-> auth_id, domain |-> domain, user_id |-> None]
    /\ pc = "loop"
    /\ caller = "direct"
    /\ mensaje = <<>>
    /\ user_id = None
    /\ intent = "none"
    /\ result = None
    /\ exc = None
    /\ leads = <<>>
    /\ fb = 0
    /\ tareas = None
    /\ limit = DefaultLimit
    /\ reply = None
    /\ calls = 0
    /\ fetched = <<>>
    /\ queries = <<AnyFilter>>
    /\ fbResults = <<>>
    /\ httpSent = 0
    /\ llmCalls = 0
    /\ served = 0
    /\ more = 0
    /\ fault = None
    /\ llm = None
    /\ whoami = None
    /\ lastCall = None
    /\ active = 0
    /\ parked = None
    /\ txt_a = <<>>
    /\ txt_b = <<>>
    /\ norm = None

NextCollector == PagedFetch \/ PagedLoopExit

SpecCollector == InitCollector /\ [][NextCollector]_vars /\ WF_vars(NextCollector)

\* ---------------------------------------------------------- domain queries
Min(a, b) == IF a < b THEN a ELSE b

\* xs[:n]
Take_all(xs, n) == xs
Take(xs, n) == SubSeq(xs, 1, Min(n, Len(xs)))

Line(label, row) == [label |-> label, id |-> row]

FormatTask(row) == Line("Tarea", row)
FormatLead(row) == Line("Lead", row)
FormatDeal(row) == Line("Deal", row)

FormatTasks(rows, n) == [i \in 1..Len(Take(rows, n)) |-> FormatTask(rows[i])]
FormatLeads(rows, n) == [i \in 1..Len(Take(rows, n)) |-> FormatLead(rows[i])]
FormatDeals(rows, n) == [i \in 1..Len(Take(rows, n)) |-> FormatDeal(rows[i])]

FallbackStatuses == <<"NEW", "IN_PROCESS", "PROCESSING">>

TasksFrame(uid) ==
    Frame("tasks.task.list", Filter("STATUS", "2", "RESPONSIBLE_ID", uid),
          DefaultPageSize, TasksMaxPages)

\* flt["ASSIGNED_BY_ID"] is set only for a truthy assigned_by_id
LeadsFrame(uid) ==
    Frame("crm.lead.list",
          Filter("STATUS_SEMANTIC_ID", "PROCESS", "ASSIGNED_BY_ID",
                 IF Truthy(uid) THEN uid ELSE None),
          DefaultPageSize, LeadsMaxPages)

FallbackFrame(uid, i) ==
    Frame("crm.lead.list",
          Filter("STATUS_ID", FallbackStatuses[i], "ASSIGNED_BY_ID",
                 IF Truthy(uid) THEN uid ELSE None),
          DefaultPageSize, FallbackMaxPages)

DealsFrame(uid) ==
    Frame("crm.deal.list", Filter("", "", "ASSIGNED_BY_ID", uid),
          DefaultPageSize, DealsMaxPages)

\* enter _paged_list from a domain query
CallPaged(frame, from) ==
    /\ pl' = frame
    /\ caller' = from
    /\ calls' = 0
    /\ fetched' = <<>>
    /\ lastCall' = None
    /\ queries' = Append(queries, frame.flt)
    /\ result' = None
    /\ exc' = None
    /\ pc' = "loop"

\* the frame of _paged_list is gone once its caller has taken the result
PopFrame ==
    /\ pl' = NoFrame
    /\ result' = None
    /\ calls' = 0
    /\ fetched' = <<>>
    /\ lastCall' = None
    /\ UNCHANGED <<caller, queries, exc>>

\* a domain query raises before any call
RaiseFrom(from, e) ==
    /\ caller' = from
    /\ exc' = Some(e)
    /\ result' = None
    /\ pc' = "raised"
    /\ UNCHANGED <<pl, calls, fetched, queries, lastCall>>

\* consultar_tareas up to its _paged_list call
consultar_tareas(uid) ==
    IF ~Truthy(uid) THEN RaiseFrom("tareas", RuntimeError(<<MsgNoUser>>))
    ELSE CallPaged(TasksFrame(uid), "tareas")

\* consultar_leads_abiertos up to its first _paged_list call
consultar_leads_abiertos(uid) == CallPaged(LeadsFrame(uid), "leads")

\* consultar_deals up to its _paged_list call
consultar_deals(uid) ==
    IF ~Truthy(uid) THEN RaiseFrom("deals", RuntimeError(<<MsgNoUser>>))
    ELSE CallPaged(DealsFrame(uid), "deals")

\* ------------------------------------------------------------------ router
Section(title, lines) == [title |-> title, lines |-> lines]
Reply(head, sections, text) == [head |-> head, sections |-> sections, text |-> text]

NoMessage == Reply("No recibi mensaje.", <<>>, <<>>)
NeedIdentity == Reply("Necesito saber quien eres.", <<>>, <<>>)

TasksReply(ts) ==
    IF ts # <<>> THEN Reply("Tareas asignadas:", <<Section("", ts)>>, <<>>)
    ELSE Reply("No encontre tareas asignadas.", <<>>, <<>>)

LeadsReply(ls) ==
    IF ls # <<>> THEN Reply("Leads abiertos:", <<Section("", ls)>>, <<>>)
    ELSE Reply("No encontre leads abiertos.", <<>>, <<>>)

DealsReply(ds) ==
    IF ds # <<>> THEN Reply("Notificaciones:", <<Section("", ds)>>, <<>>)
    ELSE Reply("No encontre Notificaciones.", <<>>, <<>>)

\* a combined reply that leaves out a section without lines
CombinedReply_skip_empty(ts, ls) ==
    Reply("Pendientes asignados:",
          (IF ts # <<>> THEN <<Section("Tareas:", ts)>> ELSE <<>>)
          \o (IF ls # <<>> THEN <<Section("Leads abiertos:", ls)>> ELSE <<>>),
          <<>>)

CombinedReply(ts, ls) ==
    Reply("Pendientes asignados:",
          << IF ts # <<>> THEN Section("Tareas:", ts)
             ELSE Section("No tienes tareas asignadas.", <<>>),
             IF ls # <<>> THEN Section("Leads abiertos:", ls)
             ELSE Section("No tienes leads abiertos.", <<>>) >>,
          <<>>)

ErrorHead(branch) ==
    CASE branch = "tasks" -> "Error consultando tareas: "
      [] branch = "leads" -> "Error consultando leads: "
      [] branch = "deals" -> "Error consultando Notificaciones: "
      [] branch = "combined" -> "Error consultando pendientes: "
      [] OTHER -> "Error con Gemini: "

\* f"... {e}": the text of the exception, its class is not shown
ErrorReply(branch, e) == Reply(ErrorHead(branch), <<>>, e.msg)

\* the branches of webhook in source order: the first test that holds is taken
Classify_combined_first(msg_l) ==
    IF Contains(msg_l, W_pendiente) \/ Contains(msg_l, W_asignado) THEN "combined"
    ELSE IF Contains(msg_l, W_tareas) THEN "tasks"
    ELSE IF LeadsRegex(msg_l) \/ Contains(msg_l, W_leads_abiertos) THEN "leads"
    ELSE IF Contains(msg_l, W_notificaciones) THEN "deals"
    ELSE "llm"
Classify(msg_l) ==
    IF Contains(msg_l, W_tareas) THEN "tasks"
    ELSE IF LeadsRegex(msg_l) \/ Contains(msg_l, W_leads_abiertos) THEN "leads"
    ELSE IF Contains(msg_l, W_notificaciones) THEN "deals"
    ELSE IF Contains(msg_l, W_pendiente) \/ Contains(msg_l, W_asignado) THEN "combined"
    ELSE "llm"

\* the try/except Exception blocks of webhook
Catches_no_ident(region) == region \in {"tasks", "leads", "deals", "combined", "llm"}
Catches(region) == region \in {"ident", "tasks", "leads", "deals", "combined", "llm"}

\* data = request.json or {} ... user_id = data.get('user_id')
Webhook_Receive ==
    /\ pc = "webhook"
    /\ mensaje' = Strip(IF request.message = None THEN <<>> ELSE request.message[1])
    /\ auth_id' = request.auth_id
    /\ domain' = request.domain
    /\ user_id' = request.user_id
    /\ pc' = IF ~Truthy(request.user_id) /\ Truthy(request.auth_id) /\ Truthy(request.domain)
             THEN "ident" ELSE "check"
    /\ UNCHANGED <<BITRIX, request, normVars, threadVars, intent, pl, caller, result, exc, leads, fb, tareas,
                   limit, reply, ghostVars>>

\* the self-identification call and its except Exception: pass
Webhook_Identify ==
    /\ pc = "ident"
    /\ \E http \in HttpOutcomes(ErrorBodies \cup UserBodies) :
          LET r == bx_get(BITRIX, auth_id, domain, http)
              failed == r.raised \/ r.data.shape # "user"
              e == IF r.raised THEN r.exc ELSE AttributeError(<<"get">>)
          IN /\ httpSent' = httpSent + (IF r.sent THEN 1 ELSE 0)
             /\ whoami' = Some(http)
             /\ IF failed
                THEN /\ user_id' = user_id
                     /\ IF Catches("ident")
                        THEN pc' = "check" /\ exc' = exc
                        ELSE pc' = "escaped" /\ exc' = Some(e)
                ELSE /\ user_id' = r.data.id
                     /\ pc' = "check"
                     /\ exc' = exc
    /\ UNCHANGED <<reqVars, normVars, threadVars, llm, lastCall, intent, pl, caller, result, leads, fb, tareas, limit, reply,
                   calls, fetched, queries, fbResults, llmCalls, served, more, fault>>

\* if not user_id
IdentityGate_off(uid) == FALSE
IdentityGate(uid) == ~Truthy(uid)

\* a handler that asks for the identity in the keyword branches only
Webhook_Check_llm_ungated ==
    /\ pc = "check"
    /\ IF mensaje = <<>>
       THEN reply' = Some(NoMessage) /\ pc' = "done" /\ intent' = intent
       ELSE IF IdentityGate(user_id) /\ Classify(normalize_text(mensaje)) # "llm"
       THEN reply' = Some(NeedIdentity) /\ pc' = "done" /\ intent' = intent
       ELSE reply' = reply /\ pc' = "route" /\ intent' = Classify(normalize_text(mensaje))
    /\ UNCHANGED <<reqVars, normVars, threadVars, user_id, pl, caller, result, exc, leads, fb, tareas, limit,
                   ghostVars>>

\* the two early returns and msg_l = normalize_text(mensaje)
Webhook_Check ==
    /\ pc = "check"
    /\ IF mensaje = <<>>
       THEN reply' = Some(NoMessage) /\ pc' = "done" /\ intent' = intent
       ELSE IF IdentityGate(user_id)
       THEN reply' = Some(NeedIdentity) /\ pc' = "done" /\ intent' = intent
       ELSE reply' = reply /\ pc' = "route" /\ intent' = Classify(normalize_text(mensaje))
    /\ UNCHANGED <<reqVars, normVars, threadVars, user_id, pl, caller, result, exc, leads, fb, tareas, limit,
                   ghostVars>>

\* entry of the branch chosen by the router
Webhook_Dispatch ==
    /\ pc = "route"
    /\ CASE intent \in {"tasks", "combined"} -> consultar_tareas(user_id)
         [] intent = "leads" -> consultar_leads_abiertos(user_id)
         [] intent = "deals" -> consultar_deals(user_id)
         [] OTHER -> /\ pc' = "llm"
                     /\ UNCHANGED <<pl, caller, calls, fetched, queries, result, exc,
                                    lastCall>>
    /\ UNCHANGED <<reqVars, normVars, threadVars, llm, whoami, user_id, intent, leads, fb, tareas, limit, reply,
                   fbResults, httpSent, llmCalls, served, more, fault>>

\* consultar_tareas after _paged_list, then the tasks branch or the combined branch
Tareas_Return ==
    /\ pc = "returned"
    /\ caller = "tareas"
    /\ LET titulos == FormatTasks(result[1], limit)
       IN IF intent = "tasks"
          THEN /\ reply' = Some(TasksReply(titulos))
               /\ pc' = "done"
               /\ tareas' = tareas
               /\ PopFrame
          ELSE /\ tareas' = Some(titulos)
               /\ reply' = reply
               /\ consultar_leads_abiertos(user_id)
    /\ UNCHANGED <<reqVars, normVars, threadVars, llm, whoami, user_id, intent, leads, fb, limit, fbResults, httpSent,
                   llmCalls, served, more, fault>>

\* the end of consultar_leads_abiertos and the reply of its branch
LeadsDone(ls) ==
    LET out == FormatLeads(ls, limit)
    IN /\ reply' = Some(IF intent = "leads" THEN LeadsReply(out)
                        ELSE CombinedReply(tareas[1], out))
       /\ pc' = "done"
       /\ PopFrame

\* if not leads
NeedsFallback_never(ls) == FALSE
NeedsFallback(ls) == ls = <<>>

\* consultar_leads_abiertos after the primary _paged_list
Leads_Return ==
    /\ pc = "returned"
    /\ caller = "leads"
    /\ leads' = result[1]
    /\ IF NeedsFallback(result[1])
       THEN /\ fb' = 1
            /\ reply' = reply
            /\ CallPaged(FallbackFrame(user_id, 1), "fallback")
       ELSE /\ fb' = fb
            /\ LeadsDone(result[1])
    /\ UNCHANGED <<reqVars, normVars, threadVars, llm, whoami, user_id, intent, tareas, limit, fbResults, httpSent,
                   llmCalls, served, more, fault>>

\* leads += _paged_list(...) inside the loop over the three statuses
Fallback_Return ==
    /\ pc = "returned"
    /\ caller = "fallback"
    /\ leads' = leads \o result[1]
    /\ fbResults' = Append(fbResults, result[1])
    /\ IF fb < Len(FallbackStatuses)
       THEN /\ fb' = fb + 1
            /\ reply' = reply
            /\ CallPaged(FallbackFrame(user_id, fb + 1), "fallback")
       ELSE /\ fb' = fb
            /\ LeadsDone(leads \o result[1])
    /\ UNCHANGED <<reqVars, normVars, threadVars, llm, whoami, user_id, intent, tareas, limit, httpSent, llmCalls, served, more, fault>>

\* consultar_deals after _paged_list and the notifications branch
Deals_Return ==
    /\ pc = "returned"
    /\ caller = "deals"
    /\ reply' = Some(DealsReply(FormatDeals(result[1], limit)))
    /\ pc' = "done"
    /\ PopFrame
    /\ UNCHANGED <<reqVars, normVars, threadVars, llm, whoami, user_id, intent, leads, fb, tareas, limit, fbResults,
                   httpSent, llmCalls, served, more, fault>>

\* an except clause that swallows the failure and lets the request run on to
\* the language model
Router_Catch_fallthrough ==
    /\ pc = "raised"
    /\ caller # "direct"
    /\ reply' = reply
    /\ pc' = "llm"
    /\ PopFrame
    /\ UNCHANGED <<reqVars, normVars, threadVars, llm, whoami, user_id, intent, leads, fb, tareas, limit,
                   fbResults, httpSent, llmCalls, served, more, fault>>

\* except Exception as e of the branch that is running
Router_Catch ==
    /\ pc = "raised"
    /\ caller # "direct"
    /\ IF Catches(intent)
       THEN reply' = Some(ErrorReply(intent, exc[1])) /\ pc' = "done"
       ELSE reply' = reply /\ pc' = "escaped"
    /\ PopFrame
    /\ UNCHANGED <<reqVars, normVars, threadVars, llm, whoami, user_id, intent, leads, fb, tareas, limit, fbResults,
                   httpSent, llmCalls, served, more, fault>>

\* ---------------------------------------------------------- language model
LlmTexts == {<<>>, <<Space>>, <<"o", "k">>, <<Space, "o", "k">>}
BlockReasons == {"SAFETY"}

\* a response: block reason, .text, candidates[0].content.parts[0].text
\* (part = None: the access raises)
LlmResp(raises, block, text, part) ==
    [raises |-> raises, block |-> block, text |-> text, part |-> part]

LlmOutcomes ==
    {LlmResp(TRUE, None, None, None)}
    \cup {LlmResp(FALSE, Some(b), None, None) : b \in BlockReasons}
    \cup {LlmResp(FALSE, None, t, p) :
            t \in {None} \cup {Some(x) : x \in LlmTexts},
            p \in {None, Some(None)} \cup {Some(Some(x)) : x \in LlmTexts}}

OrEmpty(o) == IF o = None THEN <<>> ELSE o[1]

MsgBlocked == "La respuesta fue bloqueada por la politica"
NoAnswer == <<"No tengo respuesta.">>

LlmReply(resp) ==
    IF resp.block # None THEN Reply(MsgBlocked, <<>>, <<resp.block[1]>>)
    ELSE LET texto == Strip(OrEmpty(resp.text))
         IN IF texto # <<>> THEN Reply("", <<>>, texto)
            ELSE IF resp.part = None THEN Reply("", <<>>, NoAnswer)
            ELSE Reply("", <<>>, Strip(OrEmpty(resp.part[1])))

\* gemini_model.generate_content(mensaje) and the reply built from it
Llm_Call ==
    /\ pc = "llm"
    /\ llmCalls' = llmCalls + 1
    /\ \E resp \in LlmOutcomes :
          /\ llm' = Some([prompt |-> mensaje, resp |-> resp])
          /\ IF resp.raises
             THEN /\ exc' = Some(LlmError(<<"gemini">>))
                  /\ IF Catches("llm")
                     THEN reply' = Some(ErrorReply("llm", LlmError(<<"gemini">>))) /\ pc' = "done"
                     ELSE reply' = reply /\ pc' = "escaped"
             ELSE /\ exc' = exc
                  /\ reply' = Some(LlmReply(resp))
                  /\ pc' = "done"
    /\ UNCHANGED <<reqVars, normVars, threadVars, whoami, lastCall, user_id, intent, pl, caller, result, leads, fb, tareas,
                   limit, calls, fetched, queries, fbResults, httpSent, served, more, fault>>

\* ------------------------------------------------------------ specification
Requests ==
    [message : {None} \cup {Some(t) : t \in Texts},
     auth_id : Tokens,
     domain : Domains,
     user_id : {None} \cup {Some(u) : u \in UserIds}]

Init ==
    /\ BITRIX \in Bases
    /\ request \in Requests
    /\ pc = "webhook"
    /\ mensaje = <<>>
    /\ auth_id = None
    /\ domain = None
    /\ user_id = None
    /\ intent = "none"
    /\ pl = NoFrame
    /\ caller = "none"
    /\ result = None
    /\ exc = None
    /\ leads = <<>>
    /\ fb = 0
    /\ tareas = None
    /\ limit = DefaultLimit
    /\ reply = None
    /\ calls = 0
    /\ fetched = <<>>
    /\ queries = <<>>
    /\ fbResults = <<>>
    /\ httpSent = 0
    /\ llmCalls = 0
    /\ served = 0
    /\ more = 0
    /\ fault = None
    /\ llm = None
    /\ whoami = None
    /\ lastCall = None
    /\ active = 0
    /\ parked = None
    /\ txt_a = <<>>
    /\ txt_b = <<>>
    /\ norm = None

Next ==
    \/ Webhook_Receive
    \/ Webhook_Identify
    \/ Webhook_Check
    \/ Webhook_Dispatch
    \/ PagedFetch
    \/ PagedLoopExit
    \/ Tareas_Return
    \/ Leads_Return
    \/ Fallback_Return
    \/ Deals_Return
    \/ Router_Catch
    \/ Llm_Call

Spec == Init /\ [][Next]_vars

\* a domain query called for a user with a limit of the caller's choice; the
\* branch that called it puts what it returns in the reply
InitQuery ==
    /\ BITRIX \in Bases \ {""}
    /\ request = [message |-> None, auth_id |-> None, domain |-> None,
                  user_id |-> Some("7")]
    /\ pc = "route"
    /\ mensaje = <<>>
    /\ auth_id = None
    /\ domain = None
    /\ user_id = Some("7")
    /\ intent \in {"tasks", "leads", "deals"}
    /\ pl = NoFrame
    /\ caller = "none"
    /\ result = None
    /\ exc = None
    /\ leads = <<>>
    /\ fb = 0
    /\ tareas = None
    /\ limit \in 0..MaxLimitArg
    /\ reply = None
    /\ calls = 0
    /\ fetched = <<>>
    /\ queries = <<>>
    /\ fbResults = <<>>
    /\ httpSent = 0
    /\ llmCalls = 0
    /\ served = 0
    /\ more = 0
    /\ fault = None
    /\ llm = None
    /\ whoami = None
    /\ lastCall = None
    /\ active = 0
    /\ parked = None
    /\ txt_a = <<>>
    /\ txt_b = <<>>
    /\ norm = None

NextQuery ==
    \/ Webhook_Dispatch
    \/ PagedFetch
    \/ PagedLoopExit
    \/ Tareas_Return
    \/ Leads_Return
    \/ Fallback_Return
    \/ Deals_Return
    \/ Router_Catch

SpecQuery == InitQuery /\ [][NextQuery]_vars

\* normalize_text on its own: letters in both cases, bare, precomposed with an
\* acute accent, and followed by a combining acute accent
Alphabet == {"e", "E", "e+", "E+", CombAcute, "t", "T"}

InitNormalize ==
    /\ txt_a \in SeqsUpTo(Alphabet, MaxTextLen)
    /\ txt_b \in SeqsUpTo(Alphabet, MaxTextLen)
    /\ norm = None
    /\ pc = "normalize"
    /\ BITRIX = ""
    /\ request = [message |-> None, auth_id |-> None, domain |-> None, user_id |-> None]
    /\ mensaje = <<>>
    /\ auth_id = None
    /\ domain = None
    /\ user_id = None
    /\ intent = "none"
    /\ pl = NoFrame
    /\ caller = "none"
    /\ result = None
    /\ exc = None
    /\ leads = <<>>
    /\ fb = 0
    /\ tareas = None
    /\ limit = DefaultLimit
    /\ reply = None
    /\ calls = 0
    /\ fetched = <<>>
    /\ queries = <<>>
    /\ fbResults = <<>>
    /\ httpSent = 0
    /\ llmCalls = 0
    /\ served = 0
    /\ more = 0
    /\ fault = None
    /\ llm = None
    /\ whoami = None
    /\ lastCall = None
    /\ active = 0
    /\ parked = None

handlerVars == <<BITRIX, request, mensaje, auth_id, domain, user_id, intent, pl, caller,
                 result, exc, leads, fb, tareas, limit, reply, ghostVars>>

\* normalize_text applied to both texts
Normalize_Texts ==
    /\ pc = "normalize"
    /\ norm' = Some([a |-> normalize_text(txt_a), b |-> normalize_text(txt_b), aa |-> None])
    /\ pc' = "normalized"
    /\ UNCHANGED <<txt_a, txt_b, handlerVars, threadVars>>

\* normalize_text applied to its own result
Normalize_Again ==
    /\ pc = "normalized"
    /\ norm' = Some([norm[1] EXCEPT !.aa = Some(normalize_text(norm[1].a))])
    /\ pc' = "renormalized"
    /\ UNCHANGED <<txt_a, txt_b, handlerVars, threadVars>>

NextNormalize == Normalize_Texts \/ Normalize_Again

SpecNormalize == InitNormalize /\ [][NextNormalize]_vars

\* two requests handled at the same time, each by a thread of its own: the
\* variables hold the request that is running, parked holds the other one
Context ==
    [request |-> request, pc |-> pc, mensaje |-> mensaje, auth_id |-> auth_id,
     domain |-> domain, user_id |-> user_id, intent |-> intent, pl |-> pl,
     caller |-> caller, result |-> result, exc |-> exc, leads |-> leads, fb |-> fb,
     tareas |-> tareas, limit |-> limit, reply |-> reply, calls |-> calls,
     fetched |-> fetched, queries |-> queries, fbResults |-> fbResults,
     httpSent |-> httpSent, llmCalls |-> llmCalls, served |-> served, more |-> more,
     fault |-> fault, llm |-> llm, whoami |-> whoami, lastCall |-> lastCall]

\* a handler in which user_id is a module-level name
OwnFrame_global_user ==
    {"request", "pc", "mensaje", "auth_id", "domain", "intent", "pl", "caller",
     "result", "exc", "leads", "fb", "tareas", "limit", "reply"}

\* what belongs to one request: flask's request and the locals of webhook and
\* of the functions it calls; the module-level names are BITRIX and the model
OwnFrame ==
    {"request", "pc", "mensaje", "auth_id", "domain", "user_id", "intent", "pl",
     "caller", "result", "exc", "leads", "fb", "tareas", "limit", "reply"}

\* the value a resumed thread finds under a name
Resume(name, current, saved) == IF name \in OwnFrame THEN saved ELSE current

\* the scheduler suspends the running handler and resumes the other one
Switch ==
    /\ parked # None
    /\ active' = 3 - active
    /\ parked' = Some(Context)
    /\ LET p == parked[1]
       IN /\ request' = Resume("request", request, p.request)
          /\ pc' = Resume("pc", pc, p.pc)
          /\ mensaje' = Resume("mensaje", mensaje, p.mensaje)
          /\ auth_id' = Resume("auth_id", auth_id, p.auth_id)
          /\ domain' = Resume("domain", domain, p.domain)
          /\ user_id' = Resume("user_id", user_id, p.user_id)
          /\ intent' = Resume("intent", intent, p.intent)
          /\ pl' = Resume("pl", pl, p.pl)
          /\ caller' = Resume("caller", caller, p.caller)
          /\ result' = Resume("result", result, p.result)
          /\ exc' = Resume("exc", exc, p.exc)
          /\ leads' = Resume("leads", leads, p.leads)
          /\ fb' = Resume("fb", fb, p.fb)
          /\ tareas' = Resume("tareas", tareas, p.tareas)
          /\ limit' = Resume("limit", limit, p.limit)
          /\ reply' = Resume("reply", reply, p.reply)
          /\ calls' = p.calls
          /\ fetched' = p.fetched
          /\ queries' = p.queries
          /\ fbResults' = p.fbResults
          /\ httpSent' = p.httpSent
          /\ llmCalls' = p.llmCalls
          /\ served' = p.served
          /\ more' = p.more
          /\ fault' = p.fault
          /\ llm' = p.llm
          /\ whoami' = p.whoami
          /\ lastCall' = p.lastCall
    /\ UNCHANGED <<BITRIX, normVars>>

\* a request of a known user for each branch of the router
RequestsOfUser ==
    {[message |-> Some(t), auth_id |-> None, domain |-> None, user_id |-> Some(u)] :
        t \in {W_tareas, W_leads_abiertos, W_notificaciones, W_hola}, u \in UserIds}

\* a request with a token and without user_id and message
RequestsOfToken ==
    {[message |-> None, auth_id |-> Some("tok"), domain |-> Some("dom"), user_id |-> None]}

\* a request that has just arrived
Arrived(req) ==
    [request |-> req, pc |-> "webhook", mensaje |-> <<>>, auth_id |-> None,
     domain |-> None, user_id |-> None, intent |-> "none", pl |-> NoFrame,
     caller |-> "none", result |-> None, exc |-> None, leads |-> <<>>, fb |-> 0,
     tareas |-> None, limit |-> DefaultLimit, reply |-> None, calls |-> 0,
     fetched |-> <<>>, queries |-> <<>>, fbResults |-> <<>>, httpSent |-> 0,
     llmCalls |-> 0, served |-> 0, more |-> 0, fault |-> None, llm |-> None,
     whoami |-> None, lastCall |-> None]

InitConcurrent ==
    /\ BITRIX \in Bases \ {""}
    /\ active = 1
    /\ request \in RequestsOfUser
    /\ pc = "webhook"
    /\ mensaje = <<>>
    /\ auth_id = None
    /\ domain = None
    /\ user_id = None
    /\ intent = "none"
    /\ pl = NoFrame
    /\ caller = "none"
    /\ result = None
    /\ exc = None
    /\ leads = <<>>
    /\ fb = 0
    /\ tareas = None
    /\ limit = DefaultLimit
    /\ reply = None
    /\ calls = 0
    /\ fetched = <<>>
    /\ queries = <<>>
    /\ fbResults = <<>>
    /\ httpSent = 0
    /\ llmCalls = 0
    /\ served = 0
    /\ more = 0
    /\ fault = None
    /\ llm = None
    /\ whoami = None
    /\ lastCall = None
    /\ \E req \in RequestsOfToken : parked = Some(Arrived(req))
    /\ txt_a = <<>>
    /\ txt_b = <<>>
    /\ norm = None

NextConcurrent == Next \/ Switch

SpecConcurrent == InitConcurrent /\ [][NextConcurrent]_vars

\* ------------------------------------------------------------------ claims
RECURSIVE Flatten(_)
Flatten(batches) == IF batches = <<>> THEN <<>> ELSE Head(batches) \o Flatten(Tail(batches))

RawMessage == OrEmpty(request.message)
NormalizedMessage == normalize_text(Strip(RawMessage))

TasksHeads == {"Tareas asignadas:", "No encontre tareas asignadas.", ErrorHead("tasks")}

\* C1: one _paged_list call with max_pages = N makes at most N transport
\* client calls, whatever the remote answers, and then ends (it returns or
\* raises).
C1_BoundedPages == [](calls <= pl.max_pages) /\ <>(pc \in {"returned", "raised"})

\* the remote gave a non-null next on every page and the page cap ended the call
C1_Witness ==
    /\ pc = "returned"
    /\ pl.max_pages = MaxPagesArg
    /\ pl.pages = pl.max_pages
    /\ calls = pl.max_pages

\* C2: the sequence _paged_list returns is never longer than
\* page_size * max_pages.
C2_LengthBound == (pc = "returned") => Len(result[1]) <= pl.page_size * pl.max_pages

\* C3: a POST whose message is absent, empty or blank is answered with the
\* "no message" notice and no CRM or language-model call is made for it.
C3_EmptyMessageNoCalls ==
    (pc = "done" /\ Strip(RawMessage) = <<>>)
        => reply = Some(NoMessage) /\ httpSent = 0 /\ calls = 0 /\ llmCalls = 0

\* C4: no exception leaves the router; a finished request has a reply, a
\* reply is only present when the request is finished, and a failed CRM or
\* language-model call shows up as the text of an error reply.
C4_AlwaysReplies ==
    /\ pc # "escaped"
    /\ (pc = "done") <=> (reply # None)
    /\ (pc = "done" /\ exc # None) =>
            reply = Some(Reply(ErrorHead(intent), <<>>, exc[1].msg))

\* a fallback page fetch failed and the request ended with the error reply
C4_Witness ==
    /\ pc = "done"
    /\ intent = "combined"
    /\ fb = 2
    /\ fault # None
    /\ reply = Some(ErrorReply("combined", fault[1].exc))

\* C5: the router takes the first intent, in the order tasks, open leads,
\* notifications, combined, language model, whose test the normalized message
\* passes; a message with both "tareas" and "pendiente" runs only the tasks
\* query and gets a tasks reply.
C5_FirstMatchWins ==
    (pc = "done" /\ intent # "none") =>
        LET m == NormalizedMessage
            isTasks == Contains(m, W_tareas)
            isLeads == LeadsRegex(m) \/ Contains(m, W_leads_abiertos)
            isDeals == Contains(m, W_notificaciones)
            isCombined == Contains(m, W_pendiente) \/ Contains(m, W_asignado)
        IN /\ (intent = "tasks") <=> isTasks
           /\ (intent = "leads") <=> (~isTasks /\ isLeads)
           /\ (intent = "deals") <=> (~isTasks /\ ~isLeads /\ isDeals)
           /\ (intent = "combined") <=> (~isTasks /\ ~isLeads /\ ~isDeals /\ isCombined)
           /\ (intent = "llm") <=> (~isTasks /\ ~isLeads /\ ~isDeals /\ ~isCombined)
           /\ (isTasks /\ Contains(m, W_pendiente)) =>
                 /\ reply[1].head \in TasksHeads
                 /\ \A i \in 1..Len(queries) : queries[i].status_field = "STATUS"
                 /\ llmCalls = 0

\* "Tareas pendientes" was answered with the list of tasks
C5_Witness ==
    /\ pc = "done"
    /\ RawMessage = Join(W_Tareas, Space, W_pendientes)
    /\ reply # None
    /\ reply[1].head = "Tareas asignadas:"
    /\ Len(queries) = 1

\* C6: when a page fetch fails, the _paged_list call raises that failure and
\* returns nothing, also in a fallback query; the domain query fails with it
\* and the reply holds the failure and no item of the earlier pages.
C6_NoPartialResult ==
    (fault # None) =>
        /\ pc \in {"raised", "done"}
        /\ exc = Some(fault[1].exc)
        /\ result = None
        /\ (pc = "done") => reply = Some(Reply(ErrorHead(intent), <<>>, fault[1].exc.msg))

\* the second page of a fallback query failed after a first page with rows
C6_Witness ==
    /\ pc = "raised"
    /\ caller = "fallback"
    /\ pl.pages = 1
    /\ pl.items # <<>>

\* C7: a non-empty message that asks for tasks, from a request without
\* user_id and without credentials, gets the "need identity" notice and no
\* CRM or language-model call is made.
C7_NeedIdentityNoCalls ==
    (/\ pc = "done"
     /\ Strip(RawMessage) # <<>>
     /\ Contains(NormalizedMessage, W_tareas)
     /\ ~Truthy(request.user_id)
     /\ ~Truthy(request.auth_id)
     /\ ~Truthy(request.domain))
        => /\ reply = Some(NeedIdentity)
           /\ httpSent = 0
           /\ llmCalls = 0
           /\ queries = <<>>

C7_Witness ==
    /\ pc = "done"
    /\ RawMessage = W_tareas
    /\ request.user_id = None
    /\ request.auth_id = None
    /\ request.domain = None
    /\ BITRIX # ""
    /\ reply = Some(NeedIdentity)

\* C8: what _paged_list returns is the rows of the pages it fetched, page
\* after page, each page in the order the remote gave.
C8_Concatenation ==
    /\ (pc = "returned") => result = Some(Flatten(fetched))
    /\ (pc = "loop") => pl.items = Flatten(fetched)

\* two pages with different, non-empty batches were collected
C8_Witness ==
    /\ pc = "returned"
    /\ Len(fetched) = 2
    /\ fetched[1] # <<>>
    /\ fetched[2] # <<>>
    /\ fetched[1] # fetched[2]

\* C9: consultar_leads_abiertos queries the statuses NEW, IN_PROCESS,
\* PROCESSING, in this order, exactly when the primary query returned nothing,
\* and then its result is the fallback results put together in that order;
\* after a non-empty primary result there is no further query.
C9_Fallback ==
    (pc = "done" /\ intent \in {"leads", "combined"} /\ exc = None) =>
        LET qs == IF intent = "combined" THEN Tail(queries) ELSE queries
            shown == reply[1].sections[Len(reply[1].sections)].lines
        IN /\ qs[1].status_field = "STATUS_SEMANTIC_ID"
           /\ IF fb = 0
              THEN /\ Len(qs) = 1
                   /\ leads # <<>>
                   /\ fbResults = <<>>
              ELSE /\ Len(qs) = 4
                   /\ \A i \in 1..3 : /\ qs[i + 1].status_field = "STATUS_ID"
                                      /\ qs[i + 1].status = FallbackStatuses[i]
                   /\ Len(fbResults) = 3
                   /\ leads = fbResults[1] \o fbResults[2] \o fbResults[3]
           /\ (leads # <<>>) => shown = FormatLeads(leads, limit)

\* the first and the third fallback query found different leads
C9_Witness ==
    /\ pc = "done"
    /\ intent = "leads"
    /\ Len(fbResults) = 3
    /\ fbResults[1] # <<>>
    /\ fbResults[2] = <<>>
    /\ fbResults[3] # <<>>
    /\ fbResults[1] # fbResults[3]
    /\ reply = Some(LeadsReply(FormatLeads(fbResults[1] \o fbResults[3], limit)))

\* C10: the exception raised for a body with an error field carries the
\* code and the description, and the caller can tell it from the exception
\* raised for a timeout and for a connection or HTTP-status failure.
C10_RemoteErrorDistinct ==
    (fault # None /\ fault[1].http.k = "json") =>
        /\ fault[1].exc.msg = <<fault[1].http.body.error[1], ": ", fault[1].http.body.desc[1]>>
        /\ \A h \in HttpFaults : fault[1].exc # WrapFault(h)

\* C11: a transport call made with neither a complete AUTH_ID + DOMAIN pair
\* nor a static base URL raises the configuration error, sends no HTTP
\* request, and the error is not the one raised for a timeout or for a
\* connection failure.
C11_ConfigError ==
    (fault # None /\ ~(Truthy(auth_id) /\ Truthy(domain)) /\ BITRIX = "") =>
        /\ fault[1].exc = RuntimeError(<<MsgNoConfig>>)
        /\ fault[1].http = NoHttp
        /\ httpSent = 0
        /\ \A h \in HttpFaults : fault[1].exc # WrapFault(h)

\* a call with a token but no domain and no static base URL has failed
C11_Witness ==
    /\ pc = "raised"
    /\ BITRIX = ""
    /\ auth_id = Some("tok")
    /\ domain = None
    /\ fault # None
    /\ fault[1].exc = RuntimeError(<<MsgNoConfig>>)
    /\ httpSent = 0

\* the strings a reply lists, and the rows the domain query has collected
\* when its last _paged_list call has returned
Shown(r) == IF r.sections = <<>> THEN <<>> ELSE r.sections[Len(r.sections)].lines
Collected == IF caller = "fallback" THEN leads \o result[1] ELSE result[1]
LabelOf(branch) ==
    CASE branch = "tasks" -> "Tarea" [] branch = "leads" -> "Lead" [] OTHER -> "Deal"

\* C12: a domain query called with limit >= 0 returns the formatting of the
\* first min(limit, n) of the n rows it collected, in collected order, so at
\* most limit strings; the rows are cut after they were collected.
C12_Truncation ==
    [][(pc = "returned" /\ pc' = "done") =>
          LET n == Len(Collected)
              k == IF limit < n THEN limit ELSE n
          IN /\ Len(Shown(reply'[1])) <= limit
             /\ Shown(reply'[1]) =
                   [i \in 1..k |-> [label |-> LabelOf(intent), id |-> Collected[i]]]]_vars

\* two leads were collected for a query with limit 1 and one is returned
C12_Witness ==
    /\ pc = "done"
    /\ intent = "leads"
    /\ limit = 1
    /\ Len(leads) = 2
    /\ leads[1] # leads[2]
    /\ Shown(reply[1]) = <<[label |-> "Lead", id |-> leads[1]]>>

\* the text a model response carries: .text, or else the text of its first part
TextOf(resp) ==
    IF Strip(OrEmpty(resp.text)) # <<>> THEN Strip(OrEmpty(resp.text))
    ELSE IF resp.part = None THEN <<>>
    ELSE Strip(OrEmpty(resp.part[1]))

\* C13: a message that matches no keyword intent is passed to the language
\* model as it was received, not normalized, in one call; the reply is the
\* policy-block notice if the answer was suppressed, otherwise the text of
\* the response, and the "no answer" string when the response carries no
\* text. (Texts are compared without their surrounding whitespace.)
C13_LlmFallback ==
    (pc = "done" /\ intent = "llm" /\ llm # None /\ ~llm[1].resp.raises) =>
        LET r == llm[1].resp
        IN /\ llmCalls = 1
           /\ llm[1].prompt = Strip(RawMessage)
           /\ reply = Some(IF r.block # None THEN Reply(MsgBlocked, <<>>, <<r.block[1]>>)
                           ELSE IF TextOf(r) # <<>> THEN Reply("", <<>>, TextOf(r))
                           ELSE Reply("", <<>>, NoAnswer))

\* C14: a request without user_id that comes with credentials, an AUTH_ID +
\* DOMAIN pair or the static base URL, makes the self-identification call,
\* and the id that call returns is the identity of the request.
C14_SelfIdentification ==
    (/\ pc \notin {"webhook", "ident"}
     /\ ~Truthy(request.user_id)
     /\ ((Truthy(request.auth_id) /\ Truthy(request.domain)) \/ BITRIX # ""))
        => /\ whoami # None
           /\ (whoami[1].k = "json" /\ whoami[1].body.shape = "user")
                 => user_id = whoami[1].body.id

\* the letters of a text: combining marks dropped, each character replaced
\* by its unaccented lower-case letter
BaseLetter(c) ==
    CASE c \in {"e", "E", "e+", "E+"} -> "e"
      [] c \in {"t", "T"} -> "t"
      [] OTHER -> c

RECURSIVE Letters(_)
Letters(s) ==
    IF s = <<>> THEN <<>>
    ELSE IF Head(s) = CombAcute THEN Letters(Tail(s))
    ELSE <<BaseLetter(Head(s))>> \o Letters(Tail(s))

C17_Cursor ==
    /\ [][(calls' = calls + 1) =>
             /\ lastCall' # None
             /\ IF calls = 0 THEN lastCall'[1].start = 0
                ELSE /\ lastCall # None
                     /\ lastCall[1].ok
                     /\ lastCall[1].next # None
                     /\ lastCall'[1].start = lastCall[1].next[1]]_vars
    /\ []((lastCall # None /\ lastCall[1].ok /\ lastCall[1].next = None)
              => (pc = "returned" /\ result = Some(Flatten(fetched))))

\* the second call carried the cursor of the first response and was the last
C17_Witness ==
    /\ pc = "returned"
    /\ calls = 2
    /\ lastCall = Some([start |-> 50, ok |-> TRUE, next |-> None])
    /\ Len(fetched) = 2
    /\ result = Some(Flatten(fetched))

\* the domain query a filter belongs to, and the queries that make up a branch
KindOf(flt) ==
    CASE flt.status_field = "STATUS" -> "tasks"
      [] flt.status_field \in {"STATUS_SEMANTIC_ID", "STATUS_ID"} -> "leads"
      [] OTHER -> "deals"

KindsOf(branch) ==
    CASE branch = "combined" -> {"tasks", "leads"}
      [] branch = "llm" -> {}
      [] OTHER -> {branch}

NothingFound(branch) ==
    CASE branch = "tasks" -> "No encontre tareas asignadas."
      [] branch = "leads" -> "No encontre leads abiertos."
      [] OTHER -> "No encontre Notificaciones."

\* C18: a request runs one branch only: it never makes both a domain query
\* and a language-model call, its queries are those of the intent that
\* matched, and when that query fails or finds nothing the reply is the error
\* or the "nothing found" text of that intent.
C18_OneBranch ==
    (pc = "done" /\ intent # "none") =>
        /\ ~(queries # <<>> /\ llmCalls > 0)
        /\ \A i \in 1..Len(queries) : KindOf(queries[i]) \in KindsOf(intent)
        /\ (intent # "llm") => llmCalls = 0
        /\ (intent \in {"tasks", "leads", "deals"} /\ exc # None) =>
              /\ reply[1].head = ErrorHead(intent)
              /\ reply[1].sections = <<>>
        /\ (intent \in {"tasks", "leads", "deals"} /\ exc = None /\ served = 0) =>
              reply = Some(Reply(NothingFound(intent), <<>>, <<>>))

\* the tasks query of "Tareas pendientes" failed: the reply is the tasks
\* error, and neither the combined branch nor the language model ran
C18_Witness ==
    /\ pc = "done"
    /\ RawMessage = Join(W_Tareas, Space, W_pendientes)
    /\ intent = "tasks"
    /\ fault # None
    /\ Len(queries) = 1
    /\ llmCalls = 0
    /\ reply[1].head = "Error consultando tareas: "

\* C19: in the combined branch the tasks query has returned before the first
\* leads query is made; if both succeed the reply holds the tasks section and
\* then the leads section, each also when it is empty; if one fails the reply
\* is the single error text without sections, and after a failed tasks query
\* no leads query is made.
C19_Combined ==
    (intent = "combined") =>
        /\ (caller = "tareas") =>
              /\ Len(queries) = 1
              /\ KindOf(queries[1]) = "tasks"
        /\ (caller \in {"leads", "fallback"}) =>
              /\ tareas # None
              /\ KindOf(queries[1]) = "tasks"
              /\ \A i \in 2..Len(queries) : KindOf(queries[i]) = "leads"
        /\ (pc = "done" /\ exc = None) =>
              /\ reply[1].head = "Pendientes asignados:"
              /\ reply[1].text = <<>>
              /\ Len(reply[1].sections) = 2
              /\ reply[1].sections[1] =
                    (IF tareas[1] # <<>> THEN Section("Tareas:", tareas[1])
                     ELSE Section("No tienes tareas asignadas.", <<>>))
              /\ reply[1].sections[2] =
                    (IF leads # <<>>
                     THEN Section("Leads abiertos:",
                                  [i \in 1..Len(leads) |-> [label |-> "Lead", id |-> leads[i]]])
                     ELSE Section("No tienes leads abiertos.", <<>>))
        /\ (pc = "done" /\ exc # None) =>
              /\ reply = Some(Reply("Error consultando pendientes: ", <<>>, exc[1].msg))
              /\ (tareas = None) => Len(queries) = 1

\* no task and one lead: both sections are in the reply
C19_Witness ==
    /\ pc = "done"
    /\ intent = "combined"
    /\ exc = None
    /\ tareas = Some(<<>>)
    /\ Len(leads) = 1
    /\ Len(reply[1].sections) = 2
    /\ reply[1].sections[1].title = "No tienes tareas asignadas."
    /\ reply[1].sections[2].lines # <<>>

\* C20: a request whose user_id is still missing after the self-identification
\* step (not made, failed, or answered without an id) makes no domain query
\* and no language-model call; if its message is not empty the reply is the
\* "need identity" notice, also when the message matches no keyword.
C20_UnresolvedIdentity ==
    (pc = "done" /\ ~Truthy(user_id)) =>
        /\ queries = <<>>
        /\ calls = 0
        /\ llmCalls = 0
        /\ llm = None
        /\ (Strip(RawMessage) # <<>>) => reply = Some(NeedIdentity)

\* "hola" from a request whose self-identification call gave no id
C20_Witness ==
    /\ pc = "done"
    /\ RawMessage = W_hola
    /\ whoami # None
    /\ user_id = None
    /\ reply = Some(NeedIdentity)
    /\ llmCalls = 0

\* everything one request has: its request object, the locals of its handler
\* and the record of the calls it made
OfRequest ==
    [request |-> request, pc |-> pc, mensaje |-> mensaje, auth_id |-> auth_id,
     domain |-> domain, user_id |-> user_id, intent |-> intent, pl |-> pl,
     caller |-> caller, result |-> result, exc |-> exc, leads |-> leads, fb |-> fb,
     tareas |-> tareas, limit |-> limit, reply |-> reply, calls |-> calls,
     fetched |-> fetched, queries |-> queries, fbResults |-> fbResults,
     httpSent |-> httpSent, llmCalls |-> llmCalls, served |-> served, more |-> more,
     fault |-> fault, llm |-> llm, whoami |-> whoami, lastCall |-> lastCall]

====
